---- MODULE Spec2Model ----
(***************************************************************************)
(* The worker run loop of tokio-threadpool (src/tokio-threadpool/src/      *)
(* worker.rs) as a state machine: one process per worker thread, stepping  *)
(* through Worker::run one shared-memory access at a time, and one         *)
(* external thread that submits tasks, fires notifiers and shuts the pool  *)
(* down.  The pool operations whose code is not part of worker.rs          *)
(* (signal_work, push_sleeper, terminate_sleeping_workers, submit,         *)
(* shutdown, the queues) follow the specification's sections 4.3-4.6, 6.   *)
(***************************************************************************)
EXTENDS Integers, Sequences, FiniteSets, TLC

(* ------------------------------ bounds -------------------------------- *)

\* config.worker_count: the length of inner.workers
NumWorkers == 2

\* how many tasks the external thread submits at most
MaxTasks == 1

\* how many times one task is run (polled) before it must return Complete
MaxPolls == 2

\* the spin threshold of Worker::run (256 in the code, lines 145-149; the
\* two spinning tiers differ only by thread::yield_now, which changes no state)
SpinMax == 1

\* the largest keep-alive duration and the last instant of the clock
MaxKeepAlive == 1

MaxTime == 1

\* the runtimes whose handles exist, and the deepest nesting of Handle::enter
MaxHandles == 3

MaxEnterDepth == 3

\* the largest worker array over which the scan of try_steal_task is computed
MaxScanLen == 4

Workers == 0 .. (NumWorkers - 1)

\* the external thread (submitter, notifier, shutdown caller)
Ext == NumWorkers

Procs == 0 .. NumWorkers

Tasks == 1 .. MaxTasks

(* Option<T>: None is the empty sequence, Some(x) the sequence <<x>>. *)
None == << >>

Some(x) == << x >>

Unwrap(o) == o[1]

VARIABLES
    lifecycle,       \* WorkerEntry.state: lifecycle of the worker word
    pushed,          \* WorkerEntry.state: pushed bit of the worker word
    sleep_stack,     \* Inner.sleep_stack: worker indices, top first
    num_futures,     \* Inner.state: number of outstanding futures
    terminated,      \* Inner.state: terminated bit
    inbound,         \* WorkerEntry.inbound: MPSC queue of each worker
    deque,           \* WorkerEntry.deque: work-stealing deque of each worker
    cv_signal,       \* WorkerEntry.park_condvar: a notify not yet consumed
    pc,              \* position of each thread
    ret,             \* where a thread continues after signal_work / terminate
    tgt,             \* the entry a thread popped from sleep_stack
    st,              \* Worker: local `state: WorkerState`
    pst,             \* Worker::run_task: local `state: State` (pool word)
    first,           \* Worker::run: local `first`
    consistent,      \* Worker::run: local `consistent`
    found_work,      \* drain_inbound / try_steal_task: local `found_work`
    spin_cnt,        \* Worker::run: local `spin_cnt`
    idx,             \* try_steal_task: local `idx`
    start,           \* try_steal_task: local `start`
    cur,             \* the task a worker holds in a local variable
    stolen,          \* whether `cur` came from try_steal_task
    should_finalize, \* Worker.should_finalize
    sleep_until,     \* Worker::sleep: local `sleep_until`
    drop_thread,     \* Worker::sleep: local `drop_thread`
    keep_alive,      \* config.keep_alive
    now,             \* the clock read by Instant::now()
    etask,           \* external thread: the task being submitted
    etarget,         \* external thread: the worker index chosen
    submitted,       \* number of submit calls that returned
    handed,          \* tasks handed to submit so far (1..handed)
    completed,       \* number of task runs that returned Complete
    polls,           \* how many times each task was run
    idle,            \* tasks whose last run returned Idle (held by a notifier)
    done,            \* tasks whose run returned Complete
    num_terminated,  \* Inner: how often worker_terminated was called
    discarded,       \* tasks a dropped worker popped off its deque
    context,         \* runtime::context of a thread: the handle set, if any
    entered,         \* the contexts that the enter calls under way restore
    outcome          \* what the last Handle::current / try_current gave

shared == << lifecycle, pushed, sleep_stack, num_futures, terminated,
             inbound, deque, cv_signal >>

locals == << st, pst, first, consistent, found_work, spin_cnt, idx, start,
             cur, stolen, should_finalize, sleep_until, drop_thread >>

locals_but_cur == << st, pst, first, consistent, found_work, spin_cnt, idx,
                     start, stolen, should_finalize, sleep_until,
                     drop_thread >>

\* what Drop for Worker changes besides the queues
finalized == << num_terminated, discarded >>

\* the runtime context of the thread that uses Handle
handle_vars == << context, entered, outcome >>

env == << keep_alive, now, etask, etarget, submitted, handed, completed,
          polls, idle, done, num_terminated, discarded, context, entered,
          outcome >>

vars == << lifecycle, pushed, sleep_stack, num_futures, terminated,
           inbound, deque, cv_signal, pc, ret, tgt,
           st, pst, first, consistent, found_work, spin_cnt, idx, start,
           cur, stolen, should_finalize, sleep_until, drop_thread,
           keep_alive, now, etask, etarget, submitted, handed, completed,
           polls, idle, done, num_terminated, discarded, context, entered,
           outcome >>

(* ------------------------- the worker state word ---------------------- *)

Lifecycles == { "Shutdown", "Running", "Sleeping", "Notified", "Signaled" }

\* the value of WorkerEntry.state, as state.load(Acquire) returns it
WorkerWord(w) == [ lc |-> lifecycle[w], pu |-> pushed[w] ]

\* WorkerState::is_notified: a wakeup was delivered (Notified or Signaled)
IsNotified(s) == s.lc \in { "Notified", "Signaled" }

\* WorkerState::is_signaled
IsSignaled(s) == s.lc = "Signaled"

\* the value of Inner.state, as state.load(Acquire) returns it
PoolWord == [ nf |-> num_futures, term |-> terminated ]

\* State::is_terminated: the terminated bit
IsTerminated(p) == p.term

\* State::dec_num_futures
DecNumFutures(p) == [ p EXCEPT !.nf = p.nf - 1 ]

\* the worker holds its park_mutex from the lock (line 422) to the condvar
\* wait, and again from the wakeup until it drops the guard
HoldsParkMutex(w) ==
    pc[w] \in { "sleep_p2", "sleep_until", "wait_prep", "woken", "post_wake" }

\* a producer has swapped the head of worker w's inbound queue and not yet
\* linked its node: poll sees Inconsistent once the linked nodes are used up
MidPush(w) == pc[Ext] = "push_mid" /\ etarget = w

(* ------------------------------- Init --------------------------------- *)
\* no call of Handle::current or Handle::try_current was made yet
NoOutcome == [ call |-> "none", kind |-> "none", handle |-> None ]

\* what is empty or zero after construction, whatever the workers do first
InitRest ==
    /\ num_futures = 0
    /\ terminated = FALSE
    /\ inbound = [ w \in Workers |-> << >> ]
    /\ deque = [ w \in Workers |-> << >> ]
    /\ cv_signal = [ w \in Workers |-> FALSE ]
    /\ ret = [ p \in Procs |-> "none" ]
    /\ tgt = [ p \in Procs |-> None ]
    /\ st = [ w \in Workers |-> [ lc |-> "Running", pu |-> FALSE ] ]
    /\ pst = [ w \in Workers |-> [ nf |-> 0, term |-> FALSE ] ]
    /\ consistent = [ w \in Workers |-> TRUE ]
    /\ found_work = [ w \in Workers |-> FALSE ]
    /\ spin_cnt = [ w \in Workers |-> 0 ]
    /\ idx = [ w \in Workers |-> 0 ]
    /\ start = [ w \in Workers |-> 0 ]
    /\ cur = [ w \in Workers |-> None ]
    /\ stolen = [ w \in Workers |-> FALSE ]
    /\ should_finalize = [ w \in Workers |-> FALSE ]
    /\ sleep_until = [ w \in Workers |-> None ]
    /\ drop_thread = [ w \in Workers |-> FALSE ]
    /\ now = 0
    /\ etask = None
    /\ etarget = 0
    /\ submitted = 0
    /\ handed = 0
    /\ completed = 0
    /\ polls = [ t \in Tasks |-> 0 ]
    /\ idle = { }
    /\ done = { }
    /\ num_terminated = 0
    /\ discarded = { }
    /\ context = None
    /\ entered = << >>
    /\ outcome = NoOutcome

\* the state after construction of a pool of n workers (config.pool_size);
\* the entries from n on do not exist
InitPool(n) ==
    /\ lifecycle \in [ Workers -> { "Running", "Notified", "Signaled" } ]
    /\ \A w \in Workers : w >= n => lifecycle[w] = "Running"
    /\ pushed = [ w \in Workers |-> FALSE ]
    /\ sleep_stack = << >>
    /\ pc = [ p \in Procs |-> IF p = Ext THEN "ext_idle"
                            ELSE IF p < n THEN "crs_load" ELSE "absent" ]
    /\ first = [ w \in Workers |-> TRUE ]
    /\ InitRest

InitCommon == InitPool(NumWorkers)

\* a pool built without keep-alive
Init == InitCommon /\ keep_alive = None

\* a pool of one worker, without keep-alive
InitOneWorker == InitPool(1) /\ keep_alive = None

\* Worker::sleep entered by worker 0 with every value of the worker word
\* that phase 1 provides for: Running, Notified or Signaled, pushed (and on
\* the sleep stack) or not; the other workers start their run loop
InitSleepEntry ==
    /\ lifecycle \in [ Workers -> { "Running", "Notified", "Signaled" } ]
    /\ \A w \in Workers : w > 0 => lifecycle[w] = "Running"
    /\ pushed \in [ Workers -> BOOLEAN ]
    /\ \A w \in Workers : w > 0 => ~ pushed[w]
    /\ sleep_stack = IF pushed[0] THEN << 0 >> ELSE << >>
    /\ pc = [ p \in Procs |-> IF p = Ext THEN "ext_idle"
                            ELSE IF p = 0 THEN "sleep_load" ELSE "crs_load" ]
    /\ first = [ w \in Workers |-> w > 0 ]
    /\ InitRest
    /\ keep_alive = None

\* a pool built with a keep-alive duration
InitKeepAlive == InitCommon /\ keep_alive \in { Some(d) : d \in 0 .. MaxKeepAlive }

\* self.inner.workers: the entries of the pool
Pool == { w \in Workers : pc[w] # "absent" }

\* self.inner.workers.len()
WorkersLen == Cardinality(Pool)

(* --------------------- calls, returns and the CAS --------------------- *)

\* a local `state` that is out of scope holds no value of its own
NoState == [ lc |-> "Running", pu |-> FALSE ]

NoPoolState == [ nf |-> 0, term |-> FALSE ]

\* the locals of check_run_state and of sleep go out of scope on return
DropState(w) == st' = [ st EXCEPT ![w] = NoState ]

Goto(p, l) == pc' = [ pc EXCEPT ![p] = l ]

\* compare_and_swap on WorkerEntry.state succeeding: the word becomes s
SetWord(w, s) ==
    /\ lifecycle' = [ lifecycle EXCEPT ![w] = s.lc ]
    /\ pushed' = [ pushed EXCEPT ![w] = s.pu ]

\* self.inner.signal_work(&self.inner), continuing at r when it returns
CallSignalWork(p, r) ==
    /\ pc' = [ pc EXCEPT ![p] = "sig_pop" ]
    /\ ret' = [ ret EXCEPT ![p] = r ]

\* self.inner.terminate_sleeping_workers(), continuing at r when it returns
CallTerminate(p, r) ==
    /\ pc' = [ pc EXCEPT ![p] = "term_pop" ]
    /\ ret' = [ ret EXCEPT ![p] = r ]

ReturnFromCall(p) ==
    /\ pc' = [ pc EXCEPT ![p] = ret[p] ]
    /\ ret' = [ ret EXCEPT ![p] = "none" ]
    /\ tgt' = [ tgt EXCEPT ![p] = None ]

(* ----------------------- signal_work (spec 4.3) ----------------------- *)

\* pop the top of sleep_stack; the pushed bit of the popped entry is cleared;
\* an empty stack means no action
SignalPop(p) ==
    /\ pc[p] = "sig_pop"
    /\ IF sleep_stack = << >>
       THEN /\ ReturnFromCall(p)
            /\ UNCHANGED << sleep_stack, pushed >>
       ELSE /\ sleep_stack' = Tail(sleep_stack)
            /\ pushed' = [ pushed EXCEPT ![Head(sleep_stack)] = FALSE ]
            /\ tgt' = [ tgt EXCEPT ![p] = Some(Head(sleep_stack)) ]
            /\ Goto(p, "sig_trans")
            /\ UNCHANGED ret
    /\ UNCHANGED << lifecycle, num_futures, terminated, inbound, deque,
                    cv_signal, locals, env >>

\* SignalTransition leaving a Running entry as it is
SignalTransitionKeepsRunning(p) ==
    /\ pc[p] = "sig_trans"
    /\ LET h == Unwrap(tgt[p]) IN
       CASE lifecycle[h] = "Sleeping" ->
              /\ lifecycle' = [ lifecycle EXCEPT ![h] = "Notified" ]
              /\ Goto(p, "sig_wake")
              /\ UNCHANGED << ret, tgt >>
         [] lifecycle[h] \in { "Running", "Notified" } ->
              /\ ReturnFromCall(p)
              /\ UNCHANGED lifecycle
         [] OTHER ->
              /\ Goto(p, "sig_pop")
              /\ tgt' = [ tgt EXCEPT ![p] = None ]
              /\ UNCHANGED << lifecycle, ret >>
    /\ UNCHANGED << pushed, sleep_stack, num_futures, terminated, inbound,
                    deque, cv_signal, locals, env >>

\* the atomic transition of the popped entry's lifecycle toward wake
SignalTransition(p) ==
    /\ pc[p] = "sig_trans"
    /\ LET h == Unwrap(tgt[p]) IN
       CASE lifecycle[h] = "Sleeping" ->
              /\ lifecycle' = [ lifecycle EXCEPT ![h] = "Notified" ]
              /\ Goto(p, "sig_wake")
              /\ UNCHANGED << ret, tgt >>
         [] lifecycle[h] = "Running" ->
              /\ lifecycle' = [ lifecycle EXCEPT ![h] = "Signaled" ]
              /\ ReturnFromCall(p)
         [] lifecycle[h] = "Notified" ->
              /\ ReturnFromCall(p)
              /\ UNCHANGED lifecycle
         [] OTHER ->
              \* Signaled or Shutdown: retry the pop
              /\ Goto(p, "sig_pop")
              /\ tgt' = [ tgt EXCEPT ![p] = None ]
              /\ UNCHANGED << lifecycle, ret >>
    /\ UNCHANGED << pushed, sleep_stack, num_futures, terminated, inbound,
                    deque, cv_signal, locals, env >>

\* signal the condvar under the entry's park_mutex
CondvarNotify(p) ==
    /\ ~ HoldsParkMutex(Unwrap(tgt[p]))
    /\ cv_signal' = [ cv_signal EXCEPT ![Unwrap(tgt[p])] =
                        (@ \/ pc[Unwrap(tgt[p])] = "wait") ]

SignalWake(p) ==
    /\ pc[p] = "sig_wake"
    /\ CondvarNotify(p)
    /\ ReturnFromCall(p)
    /\ UNCHANGED << lifecycle, pushed, sleep_stack, num_futures, terminated,
                    inbound, deque, locals, env >>

(* ---------------- terminate_sleeping_workers (spec 4.6) --------------- *)

TerminatePop(p) ==
    /\ pc[p] = "term_pop"
    /\ IF sleep_stack = << >>
       THEN /\ ReturnFromCall(p)
            /\ UNCHANGED << sleep_stack, pushed >>
       ELSE /\ sleep_stack' = Tail(sleep_stack)
            /\ pushed' = [ pushed EXCEPT ![Head(sleep_stack)] = FALSE ]
            /\ tgt' = [ tgt EXCEPT ![p] = Some(Head(sleep_stack)) ]
            /\ Goto(p, "term_trans")
            /\ UNCHANGED ret
    /\ UNCHANGED << lifecycle, num_futures, terminated, inbound, deque,
                    cv_signal, locals, env >>

\* TerminateTransition marking the popped entry Shutdown
TerminateTransitionSetsShutdown(p) ==
    /\ pc[p] = "term_trans"
    /\ lifecycle' = [ lifecycle EXCEPT ![Unwrap(tgt[p])] = "Shutdown" ]
    /\ Goto(p, "term_wake")
    /\ UNCHANGED << pushed, sleep_stack, num_futures, terminated, inbound,
                    deque, cv_signal, ret, tgt, locals, env >>

\* waking a popped entry: its lifecycle is set to Notified
TerminateTransition(p) ==
    /\ pc[p] = "term_trans"
    /\ lifecycle' = [ lifecycle EXCEPT ![Unwrap(tgt[p])] = "Notified" ]
    /\ Goto(p, "term_wake")
    /\ UNCHANGED << pushed, sleep_stack, num_futures, terminated, inbound,
                    deque, cv_signal, ret, tgt, locals, env >>

TerminateWake(p) ==
    /\ pc[p] = "term_wake"
    /\ CondvarNotify(p)
    /\ Goto(p, "term_pop")
    /\ tgt' = [ tgt EXCEPT ![p] = None ]
    /\ UNCHANGED << lifecycle, pushed, sleep_stack, num_futures, terminated,
                    inbound, deque, ret, locals, env >>

(* -------------------- Worker::check_run_state -------------------------- *)

\* line 171: let mut state = self.entry().state.load(Acquire)
CheckRunStateLoad(w) ==
    /\ pc[w] = "crs_load"
    /\ st' = [ st EXCEPT ![w] = WorkerWord(w) ]
    /\ Goto(w, "crs_pool")
    /\ UNCHANGED << shared, ret, tgt, pst, first, consistent, found_work,
                    spin_cnt, idx, start, cur, stolen, should_finalize,
                    sleep_until, drop_thread, env >>

\* lines 174-189: the pool word is loaded; a terminated pool ends the loop
\* (run then sets should_finalize, line 163); Running breaks out with no CAS
CheckRunStatePool(w) ==
    /\ pc[w] = "crs_pool"
    /\ IF IsTerminated(PoolWord)
       THEN Goto(w, "set_finalize") /\ DropState(w) /\ UNCHANGED first
       ELSE CASE st[w].lc = "Running" ->
                   /\ Goto(w, "drain")
                   /\ DropState(w)
                   /\ first' = [ first EXCEPT ![w] = FALSE ]
              [] IsNotified(st[w]) ->
                   Goto(w, "crs_cas") /\ UNCHANGED << first, st >>
              [] OTHER ->
                   Goto(w, "panicked") /\ UNCHANGED << first, st >>
    /\ UNCHANGED << shared, ret, tgt, pst, consistent, found_work,
                    spin_cnt, idx, start, cur, stolen, should_finalize,
                    sleep_until, drop_thread, env >>

\* lines 191-210: the CAS back to Running; a worker that was Signaled, not
\* in its first iteration, delegates the signal
CheckRunStateCas(w) ==
    /\ pc[w] = "crs_cas"
    /\ IF WorkerWord(w) = st[w]
       THEN /\ SetWord(w, [ st[w] EXCEPT !.lc = "Running" ])
            /\ first' = [ first EXCEPT ![w] = FALSE ]
            /\ IF ~ first[w] /\ IsSignaled(st[w])
               THEN CallSignalWork(w, "drain")
               ELSE Goto(w, "drain") /\ UNCHANGED ret
            /\ DropState(w)
       ELSE /\ st' = [ st EXCEPT ![w] = WorkerWord(w) ]
            /\ Goto(w, "crs_pool")
            /\ UNCHANGED << lifecycle, pushed, first, ret >>
    /\ UNCHANGED << sleep_stack, num_futures, terminated, inbound, deque,
                    cv_signal, tgt, pst, consistent, found_work, spin_cnt,
                    idx, start, cur, stolen, should_finalize, sleep_until,
                    drop_thread, env >>

\* line 163: self.should_finalize.set(true), after the loop ended
SetFinalize(w) ==
    /\ pc[w] = "set_finalize"
    /\ should_finalize' = [ should_finalize EXCEPT ![w] = TRUE ]
    /\ Goto(w, "exited")
    /\ UNCHANGED << shared, ret, tgt, st, pst, first, consistent, found_work,
                    spin_cnt, idx, start, cur, stolen, sleep_until,
                    drop_thread, env >>

(* ----------------------- Worker::drain_inbound ------------------------- *)

\* DrainInbound that returns without signal_work after it moved tasks
DrainInboundNoSignal(w) ==
    /\ pc[w] = "drain"
    /\ IF inbound[w] # << >>
       THEN /\ inbound' = [ inbound EXCEPT ![w] = Tail(@) ]
            /\ deque' = [ deque EXCEPT ![w] = Append(@, Head(inbound[w])) ]
            /\ found_work' = [ found_work EXCEPT ![w] = TRUE ]
            /\ UNCHANGED << pc, ret, consistent >>
       ELSE /\ consistent' = [ consistent EXCEPT ![w] = ~ MidPush(w) ]
            /\ found_work' = [ found_work EXCEPT ![w] = FALSE ]
            /\ Goto(w, "try_run") /\ UNCHANGED ret
            /\ UNCHANGED << inbound, deque >>
    /\ UNCHANGED << lifecycle, pushed, sleep_stack, num_futures, terminated,
                    cv_signal, tgt, st, pst, first, spin_cnt, idx, start,
                    cur, stolen, should_finalize, sleep_until, drop_thread,
                    env >>

\* lines 329-354, one poll of the inbound queue per step: Data is pushed
\* onto the worker's own deque (push_internal); Empty and Inconsistent end the
\* drain, after a signal_work when some task was moved
DrainInbound(w) ==
    /\ pc[w] = "drain"
    /\ IF inbound[w] # << >>
       THEN /\ inbound' = [ inbound EXCEPT ![w] = Tail(@) ]
            /\ deque' = [ deque EXCEPT ![w] = Append(@, Head(inbound[w])) ]
            /\ found_work' = [ found_work EXCEPT ![w] = TRUE ]
            /\ UNCHANGED << pc, ret, consistent >>
       ELSE /\ consistent' = [ consistent EXCEPT ![w] = ~ MidPush(w) ]
            /\ found_work' = [ found_work EXCEPT ![w] = FALSE ]
            /\ IF found_work[w]
               THEN CallSignalWork(w, "try_run")
               ELSE Goto(w, "try_run") /\ UNCHANGED ret
            /\ UNCHANGED << inbound, deque >>
    /\ UNCHANGED << lifecycle, pushed, sleep_stack, num_futures, terminated,
                    cv_signal, tgt, st, pst, first, spin_cnt, idx, start,
                    cur, stolen, should_finalize, sleep_until, drop_thread,
                    env >>

(* ------------------------ Worker::try_run_task ------------------------- *)

\* deque.steal() loses a race (Retry) only against another thread that is
\* taking from the same deque at that moment
Contended(v, w) ==
    \E u \in Workers \ { w } :
        \/ pc[u] = "try_run" /\ u = v
        \/ pc[u] = "steal" /\ idx[u] = v

\* TryRunTask answering Empty on a deque that holds a task
TryRunTaskMissesTask(w) ==
    /\ pc[w] = "try_run"
    /\ Goto(w, "steal_begin")
    /\ UNCHANGED << deque, cur, stolen, spin_cnt, consistent >>
    /\ UNCHANGED << lifecycle, pushed, sleep_stack, num_futures, terminated,
                    inbound, cv_signal, ret, tgt, st, pst, first,
                    found_work, idx, start, should_finalize, sleep_until,
                    drop_thread, env >>

\* lines 221-228: self.entry().deque.steal()
TryRunTask(w) ==
    /\ pc[w] = "try_run"
    /\ \/ /\ deque[w] = << >>
          /\ Goto(w, "steal_begin")
          /\ UNCHANGED << deque, cur, stolen, spin_cnt, consistent >>
       \/ /\ deque[w] # << >>
          /\ cur' = [ cur EXCEPT ![w] = Some(Head(deque[w])) ]
          /\ deque' = [ deque EXCEPT ![w] = Tail(@) ]
          /\ stolen' = [ stolen EXCEPT ![w] = FALSE ]
          /\ consistent' = [ consistent EXCEPT ![w] = TRUE ]
          /\ Goto(w, "run")
          /\ UNCHANGED spin_cnt
       \/ /\ deque[w] # << >>
          /\ Contended(w, w)
          /\ spin_cnt' = [ spin_cnt EXCEPT ![w] = 0 ]
          /\ consistent' = [ consistent EXCEPT ![w] = TRUE ]
          /\ Goto(w, "crs_load")
          /\ UNCHANGED << deque, cur, stolen >>
    /\ UNCHANGED << lifecycle, pushed, sleep_stack, num_futures, terminated,
                    inbound, cv_signal, ret, tgt, st, pst, first,
                    found_work, idx, start, should_finalize, sleep_until,
                    drop_thread, env >>

(* ----------------------- Worker::try_steal_task ------------------------ *)

\* lines 238-241: idx = rand_usize() % len; start = idx
TryStealBegin(w) ==
    /\ pc[w] = "steal_begin"
    /\ \E i \in Pool :
          /\ idx' = [ idx EXCEPT ![w] = i ]
          /\ start' = [ start EXCEPT ![w] = i ]
    /\ found_work' = [ found_work EXCEPT ![w] = FALSE ]
    /\ Goto(w, "steal")
    /\ UNCHANGED << shared, ret, tgt, st, pst, first, consistent, spin_cnt,
                    cur, stolen, should_finalize, sleep_until, drop_thread,
                    env >>

\* the scan moving on by two entries
NextIdxSkips(i) == (i + 2) % WorkersLen

\* lines 243-270 as written: an idx below len is visited and incremented,
\* an idx of len is set to 0, and the loop ends when idx equals start; the
\* result is the entries visited, in order, when nothing is stolen (a scan
\* that does not end within the rounds given visits the entry len)
RECURSIVE ScanLoop(_, _, _, _)
ScanLoop(len, i, first_idx, rounds) ==
    IF rounds = 0 THEN << len >>
    ELSE LET visit == IF i < len THEN << i >> ELSE << >>
             nxt == IF i < len THEN i + 1 ELSE 0
         IN  IF nxt = first_idx THEN visit
             ELSE visit \o ScanLoop(len, nxt, first_idx, rounds - 1)

ScanOrder(len, first_idx) == ScanLoop(len, first_idx, first_idx, 2 * len + 2)

\* lines 263-270: idx += 1, wrapping to 0 at len; the scan ends at start
NextIdx(i) == (i + 1) % WorkersLen

\* the locals of try_steal_task go out of scope on return
StealLocalsDropped(w) ==
    /\ idx' = [ idx EXCEPT ![w] = 0 ]
    /\ start' = [ start EXCEPT ![w] = 0 ]
    /\ found_work' = [ found_work EXCEPT ![w] = FALSE ]

\* StealStep with a steal that leaves the task in the victim's deque
StealStepLeavesTask(w) ==
    /\ pc[w] = "steal"
    /\ \/ /\ deque[idx[w]] # << >>
          /\ cur' = [ cur EXCEPT ![w] = Some(Head(deque[idx[w]])) ]
          /\ stolen' = [ stolen EXCEPT ![w] = TRUE ]
          /\ Goto(w, "run")
          /\ StealLocalsDropped(w)
          /\ consistent' = [ consistent EXCEPT ![w] = TRUE ]
          /\ UNCHANGED << spin_cnt, deque >>
       \/ /\ LET found == found_work[w] \/ deque[idx[w]] # << >> IN
             IF NextIdx(idx[w]) # start[w]
             THEN /\ idx' = [ idx EXCEPT ![w] = NextIdx(@) ]
                  /\ found_work' = [ found_work EXCEPT ![w] = found ]
                  /\ UNCHANGED << pc, spin_cnt, start, consistent >>
             ELSE /\ StealLocalsDropped(w)
                  /\ IF found
                     THEN /\ spin_cnt' = [ spin_cnt EXCEPT ![w] = 0 ]
                          /\ consistent' = [ consistent EXCEPT ![w] = TRUE ]
                          /\ Goto(w, "crs_load")
                     ELSE /\ Goto(w, "spin")
                          /\ UNCHANGED << spin_cnt, consistent >>
          /\ deque[idx[w]] = << >> \/ Contended(idx[w], w)
          /\ UNCHANGED << deque, cur, stolen >>
    /\ UNCHANGED << lifecycle, pushed, sleep_stack, num_futures, terminated,
                    inbound, cv_signal, ret, tgt, st, pst, first,
                    should_finalize, sleep_until, drop_thread, env >>

\* lines 243-273, one steal attempt per step; when the scan ends with
\* found_work the run loop resets spin_cnt and continues (lines 134-137)
StealStep(w) ==
    /\ pc[w] = "steal"
    /\ \/ /\ deque[idx[w]] # << >>
          /\ cur' = [ cur EXCEPT ![w] = Some(Head(deque[idx[w]])) ]
          /\ deque' = [ deque EXCEPT ![idx[w]] = Tail(@) ]
          /\ stolen' = [ stolen EXCEPT ![w] = TRUE ]
          /\ Goto(w, "run")
          /\ StealLocalsDropped(w)
          /\ consistent' = [ consistent EXCEPT ![w] = TRUE ]
          /\ UNCHANGED spin_cnt
       \/ /\ LET found == found_work[w] \/ deque[idx[w]] # << >> IN
             IF NextIdx(idx[w]) # start[w]
             THEN /\ idx' = [ idx EXCEPT ![w] = NextIdx(@) ]
                  /\ found_work' = [ found_work EXCEPT ![w] = found ]
                  /\ UNCHANGED << pc, spin_cnt, start, consistent >>
             ELSE /\ StealLocalsDropped(w)
                  /\ IF found
                     THEN /\ spin_cnt' = [ spin_cnt EXCEPT ![w] = 0 ]
                          /\ consistent' = [ consistent EXCEPT ![w] = TRUE ]
                          /\ Goto(w, "crs_load")
                     ELSE /\ Goto(w, "spin")
                          /\ UNCHANGED << spin_cnt, consistent >>
          /\ deque[idx[w]] = << >> \/ Contended(idx[w], w)
          /\ UNCHANGED << deque, cur, stolen >>
    /\ UNCHANGED << lifecycle, pushed, sleep_stack, num_futures, terminated,
                    inbound, cv_signal, ret, tgt, st, pst, first,
                    should_finalize, sleep_until, drop_thread, env >>

(* -------------------------- Worker::run_task --------------------------- *)

\* the results task.run may give: a task that was run MaxPolls - 1 times
\* before completes
RunResults(t) ==
    IF polls[t] + 1 < MaxPolls THEN { "Idle", "Schedule", "Complete" }
                               ELSE { "Complete" }

\* RunTask with a Schedule result that does not push the task back
RunTaskDropsReschedule(w) ==
    /\ pc[w] = "run"
    /\ LET t == Unwrap(cur[w]) IN
       /\ polls' = [ polls EXCEPT ![t] = @ + 1 ]
       /\ \E r \in RunResults(t) :
             /\ CASE r = "Idle" ->
                       /\ idle' = idle \cup { t }
                       /\ Goto(w, "after_run")
                       /\ UNCHANGED << deque, done, completed >>
                  [] r = "Schedule" ->
                       /\ Goto(w, "after_run")
                       /\ UNCHANGED << deque, idle, done, completed >>
                  [] OTHER ->
                       /\ done' = done \cup { t }
                       /\ completed' = completed + 1
                       /\ Goto(w, "complete_load")
                       /\ UNCHANGED << deque, idle >>
    /\ cur' = [ cur EXCEPT ![w] = None ]
    /\ UNCHANGED << lifecycle, pushed, sleep_stack, num_futures, terminated,
                    inbound, cv_signal, ret, tgt, locals_but_cur,
                    keep_alive, now, etask, etarget, submitted, handed,
                    finalized, handle_vars >>

\* RunTask counting a run that returns Schedule as a completion too
RunTaskScheduleCompletes(w) ==
    /\ pc[w] = "run"
    /\ LET t == Unwrap(cur[w]) IN
       /\ polls' = [ polls EXCEPT ![t] = @ + 1 ]
       /\ \E r \in RunResults(t) :
             /\ CASE r = "Idle" ->
                       /\ idle' = idle \cup { t }
                       /\ Goto(w, "after_run")
                       /\ UNCHANGED << deque, done, completed >>
                  [] r = "Schedule" ->
                       /\ deque' = [ deque EXCEPT ![w] = Append(@, t) ]
                       /\ Goto(w, "complete_load")
                       /\ UNCHANGED << idle, done, completed >>
                  [] OTHER ->
                       /\ done' = done \cup { t }
                       /\ completed' = completed + 1
                       /\ Goto(w, "complete_load")
                       /\ UNCHANGED << deque, idle >>
    /\ cur' = [ cur EXCEPT ![w] = None ]
    /\ UNCHANGED << lifecycle, pushed, sleep_stack, num_futures, terminated,
                    inbound, cv_signal, ret, tgt, locals_but_cur,
                    keep_alive, now, etask, etarget, submitted, handed,
                    finalized, handle_vars >>

\* lines 279-284: task.run; Idle does nothing, Schedule pushes the task back
\* onto the worker's deque, Complete goes on to decrement num_futures
RunTask(w) ==
    /\ pc[w] = "run"
    /\ LET t == Unwrap(cur[w]) IN
       /\ polls' = [ polls EXCEPT ![t] = @ + 1 ]
       /\ \E r \in RunResults(t) :
             /\ CASE r = "Idle" ->
                       /\ idle' = idle \cup { t }
                       /\ Goto(w, "after_run")
                       /\ UNCHANGED << deque, done, completed >>
                  [] r = "Schedule" ->
                       /\ deque' = [ deque EXCEPT ![w] = Append(@, t) ]
                       /\ Goto(w, "after_run")
                       /\ UNCHANGED << idle, done, completed >>
                  [] OTHER ->
                       /\ done' = done \cup { t }
                       /\ completed' = completed + 1
                       /\ Goto(w, "complete_load")
                       /\ UNCHANGED << deque, idle >>
    /\ cur' = [ cur EXCEPT ![w] = None ]
    /\ UNCHANGED << lifecycle, pushed, sleep_stack, num_futures, terminated,
                    inbound, cv_signal, ret, tgt, locals_but_cur,
                    keep_alive, now, etask, etarget, submitted, handed,
                    finalized, handle_vars >>

\* line 285: let mut state = self.inner.state.load(Acquire)
CompleteLoad(w) ==
    /\ pc[w] = "complete_load"
    /\ pst' = [ pst EXCEPT ![w] = PoolWord ]
    /\ Goto(w, "complete_cas")
    /\ UNCHANGED << shared, ret, tgt, st, first, consistent, found_work,
                    spin_cnt, idx, start, cur, stolen, should_finalize,
                    sleep_until, drop_thread, env >>

\* CompleteCas that never wakes the sleeping workers
CompleteCasNoTerminate(w) ==
    /\ pc[w] = "complete_cas"
    /\ IF PoolWord = pst[w]
       THEN /\ num_futures' = DecNumFutures(pst[w]).nf
            /\ Goto(w, "after_run")
            /\ pst' = [ pst EXCEPT ![w] = NoPoolState ]
       ELSE /\ pst' = [ pst EXCEPT ![w] = PoolWord ]
            /\ UNCHANGED << num_futures, pc >>
    /\ UNCHANGED << lifecycle, pushed, sleep_stack, terminated, inbound,
                    deque, cv_signal, ret, tgt, st, first, consistent,
                    found_work, spin_cnt, idx, start, cur, stolen,
                    should_finalize, sleep_until, drop_thread, env >>

\* lines 288-312: the CAS that decrements num_futures; the run that took it
\* from 1 on a terminated pool wakes the sleeping workers
CompleteCas(w) ==
    /\ pc[w] = "complete_cas"
    /\ IF PoolWord = pst[w]
       THEN /\ num_futures' = DecNumFutures(pst[w]).nf
            /\ IF pst[w].nf = 1 /\ IsTerminated(DecNumFutures(pst[w]))
               THEN CallTerminate(w, "after_run")
               ELSE Goto(w, "after_run") /\ UNCHANGED ret
            /\ pst' = [ pst EXCEPT ![w] = NoPoolState ]
       ELSE /\ pst' = [ pst EXCEPT ![w] = PoolWord ]
            /\ UNCHANGED << num_futures, pc, ret >>
    /\ UNCHANGED << lifecycle, pushed, sleep_stack, terminated, inbound,
                    deque, cv_signal, tgt, st, first, consistent, found_work,
                    spin_cnt, idx, start, cur, stolen, should_finalize,
                    sleep_until, drop_thread, env >>

\* back in the run loop: after try_run_task (lines 127-131) spin_cnt is
\* reset and the loop continues; try_steal_task first calls signal_work
\* (line 255)
AfterRun(w) ==
    /\ pc[w] = "after_run"
    /\ spin_cnt' = [ spin_cnt EXCEPT ![w] = 0 ]
    /\ stolen' = [ stolen EXCEPT ![w] = FALSE ]
    /\ IF stolen[w]
       THEN CallSignalWork(w, "crs_load")
       ELSE Goto(w, "crs_load") /\ UNCHANGED ret
    /\ UNCHANGED << shared, tgt, st, pst, first, consistent, found_work,
                    idx, start, cur, should_finalize, sleep_until,
                    drop_thread, env >>

\* SpinOrSleep that does not look at the result of drain_inbound
SpinOrSleepIgnoresInconsistent(w) ==
    /\ pc[w] = "spin"
    /\ IF spin_cnt[w] < SpinMax
       THEN /\ spin_cnt' = [ spin_cnt EXCEPT ![w] = @ + 1 ]
            /\ Goto(w, "crs_load")
       ELSE /\ Goto(w, "sleep_load")
            /\ UNCHANGED spin_cnt
    /\ consistent' = [ consistent EXCEPT ![w] = TRUE ]
    /\ UNCHANGED << shared, ret, tgt, st, pst, first, found_work,
                    idx, start, cur, stolen, should_finalize, sleep_until,
                    drop_thread, env >>

\* lines 139-158: an inconsistent drain loops at once; otherwise the worker
\* spins until spin_cnt reaches the threshold, then sleeps
SpinOrSleep(w) ==
    /\ pc[w] = "spin"
    /\ IF ~ consistent[w]
       THEN /\ spin_cnt' = [ spin_cnt EXCEPT ![w] = 0 ]
            /\ Goto(w, "crs_load")
       ELSE IF spin_cnt[w] < SpinMax
            THEN /\ spin_cnt' = [ spin_cnt EXCEPT ![w] = @ + 1 ]
                 /\ Goto(w, "crs_load")
            ELSE /\ Goto(w, "sleep_load")
                 /\ UNCHANGED spin_cnt
    /\ consistent' = [ consistent EXCEPT ![w] = TRUE ]
    /\ UNCHANGED << shared, ret, tgt, st, pst, first, found_work,
                    idx, start, cur, stolen, should_finalize, sleep_until,
                    drop_thread, env >>

(* ---------------------------- Worker::sleep ---------------------------- *)

\* sleep() returns true: the run loop goes on with its next iteration
SleepReturnsTrue(w) == Goto(w, "crs_load")

\* sleep() returns false: run returns at line 156
SleepReturnsFalse(w) == Goto(w, "exited")

\* line 364: let mut state = self.entry().state.load(Acquire)
SleepLoad(w) ==
    /\ pc[w] = "sleep_load"
    /\ st' = [ st EXCEPT ![w] = WorkerWord(w) ]
    /\ Goto(w, "sleep_p1")
    /\ UNCHANGED << shared, ret, tgt, pst, first, consistent, found_work,
                    spin_cnt, idx, start, cur, stolen, should_finalize,
                    sleep_until, drop_thread, env >>

\* SleepPhase1 whose CAS leaves the pushed bit of a Running worker clear
SleepPhase1KeepsPushedClear(w) ==
    /\ pc[w] = "sleep_p1"
    /\ IF st[w].lc \notin { "Running", "Notified", "Signaled" }
       THEN Goto(w, "panicked") /\ UNCHANGED << lifecycle, pushed, st >>
       ELSE IF WorkerWord(w) = st[w]
            THEN /\ SetWord(w, IF st[w].lc = "Running"
                               THEN st[w]
                               ELSE [ st[w] EXCEPT !.lc = "Running" ])
                 /\ IF IsNotified(st[w])
                    THEN SleepReturnsTrue(w) /\ DropState(w)
                    ELSE /\ IF ~ st[w].pu
                            THEN Goto(w, "sleep_push")
                            ELSE Goto(w, "sleep_lock")
                         /\ UNCHANGED st
            ELSE /\ st' = [ st EXCEPT ![w] = WorkerWord(w) ]
                 /\ UNCHANGED << lifecycle, pushed, pc >>
    /\ UNCHANGED << sleep_stack, num_futures, terminated, inbound, deque,
                    cv_signal, ret, tgt, pst, first, consistent, found_work,
                    spin_cnt, idx, start, cur, stolen, should_finalize,
                    sleep_until, drop_thread, env >>

\* SleepPhase1 that goes on to push and park after it has consumed a
\* Notified or Signaled state
SleepPhase1ParksAnyway(w) ==
    /\ pc[w] = "sleep_p1"
    /\ IF st[w].lc \notin { "Running", "Notified", "Signaled" }
       THEN Goto(w, "panicked") /\ UNCHANGED << lifecycle, pushed, st >>
       ELSE IF WorkerWord(w) = st[w]
            THEN /\ SetWord(w, IF st[w].lc = "Running"
                               THEN [ st[w] EXCEPT !.pu = TRUE ]
                               ELSE [ st[w] EXCEPT !.lc = "Running" ])
                 /\ IF ~ st[w].pu
                    THEN Goto(w, "sleep_push")
                    ELSE Goto(w, "sleep_lock")
                 /\ UNCHANGED st
            ELSE /\ st' = [ st EXCEPT ![w] = WorkerWord(w) ]
                 /\ UNCHANGED << lifecycle, pushed, pc >>
    /\ UNCHANGED << sleep_stack, num_futures, terminated, inbound, deque,
                    cv_signal, ret, tgt, pst, first, consistent, found_work,
                    spin_cnt, idx, start, cur, stolen, should_finalize,
                    sleep_until, drop_thread, env >>

\* lines 372-418, phase 1: Running sets the pushed bit, Notified and
\* Signaled go back to Running and return true; `state` keeps the value the
\* CAS expected
SleepPhase1(w) ==
    /\ pc[w] = "sleep_p1"
    /\ IF st[w].lc \notin { "Running", "Notified", "Signaled" }
       THEN Goto(w, "panicked") /\ UNCHANGED << lifecycle, pushed, st >>
       ELSE IF WorkerWord(w) = st[w]
            THEN /\ SetWord(w, IF st[w].lc = "Running"
                               THEN [ st[w] EXCEPT !.pu = TRUE ]
                               ELSE [ st[w] EXCEPT !.lc = "Running" ])
                 /\ IF IsNotified(st[w])
                    THEN SleepReturnsTrue(w) /\ DropState(w)
                    ELSE /\ IF ~ st[w].pu
                            THEN Goto(w, "sleep_push")
                            ELSE Goto(w, "sleep_lock")
                         /\ UNCHANGED st
            ELSE /\ st' = [ st EXCEPT ![w] = WorkerWord(w) ]
                 /\ UNCHANGED << lifecycle, pushed, pc >>
    /\ UNCHANGED << sleep_stack, num_futures, terminated, inbound, deque,
                    cv_signal, ret, tgt, pst, first, consistent, found_work,
                    spin_cnt, idx, start, cur, stolen, should_finalize,
                    sleep_until, drop_thread, env >>

\* Inner::push_sleeper: rejected when the pool is terminated
PushSleeperRejected == terminated

\* SleepPush that goes on to park although the push was rejected
SleepPushIgnoresRejection(w) ==
    /\ pc[w] = "sleep_push"
    /\ IF PushSleeperRejected
       THEN Goto(w, "sleep_lock") /\ UNCHANGED << sleep_stack, st >>
       ELSE /\ sleep_stack' = << w >> \o sleep_stack
            /\ Goto(w, "sleep_lock")
            /\ UNCHANGED st
    /\ UNCHANGED << lifecycle, pushed, num_futures, terminated, inbound,
                    deque, cv_signal, ret, tgt, pst, first, consistent,
                    found_work, spin_cnt, idx, start, cur, stolen,
                    should_finalize, sleep_until, drop_thread, env >>

\* lines 404-411: self.inner.push_sleeper(self.idx)
SleepPush(w) ==
    /\ pc[w] = "sleep_push"
    /\ IF PushSleeperRejected
       THEN SleepReturnsTrue(w) /\ DropState(w) /\ UNCHANGED sleep_stack
       ELSE /\ sleep_stack' = << w >> \o sleep_stack
            /\ Goto(w, "sleep_lock")
            /\ UNCHANGED st
    /\ UNCHANGED << lifecycle, pushed, num_futures, terminated, inbound,
                    deque, cv_signal, ret, tgt, pst, first, consistent,
                    found_work, spin_cnt, idx, start, cur, stolen,
                    should_finalize, sleep_until, drop_thread, env >>

\* line 422: let mut lock = self.entry().park_mutex.lock().unwrap()
SleepLock(w) ==
    /\ pc[w] = "sleep_lock"
    /\ Goto(w, "sleep_p2")
    /\ UNCHANGED << shared, ret, tgt, locals, env >>

\* lines 428-467, phase 2 under park_mutex: Running becomes Sleeping by CAS;
\* Notified and Signaled drop the lock and go back to Running
SleepPhase2(w) ==
    /\ pc[w] = "sleep_p2"
    /\ CASE st[w].lc = "Running" ->
              IF WorkerWord(w) = st[w]
              THEN /\ SetWord(w, [ st[w] EXCEPT !.lc = "Sleeping" ])
                   /\ Goto(w, "sleep_until")
                   /\ DropState(w)
              ELSE /\ st' = [ st EXCEPT ![w] = WorkerWord(w) ]
                   /\ UNCHANGED << lifecycle, pushed, pc >>
         [] IsNotified(st[w]) ->
              Goto(w, "p2_back") /\ UNCHANGED << lifecycle, pushed, st >>
         [] OTHER ->
              Goto(w, "panicked") /\ UNCHANGED << lifecycle, pushed, st >>
    /\ UNCHANGED << sleep_stack, num_futures, terminated, inbound, deque,
                    cv_signal, ret, tgt, pst, first, consistent, found_work,
                    spin_cnt, idx, start, cur, stolen, should_finalize,
                    sleep_until, drop_thread, env >>

\* sleep_until and drop_thread go out of scope when sleep returns
SleepLocalsDropped(w) ==
    /\ sleep_until' = [ sleep_until EXCEPT ![w] = None ]
    /\ drop_thread' = [ drop_thread EXCEPT ![w] = FALSE ]

\* the CAS loop back to Running, after which sleep returns true
BackToRunning(w) ==
    /\ IF WorkerWord(w) = st[w]
       THEN /\ SetWord(w, [ st[w] EXCEPT !.lc = "Running" ])
            /\ SleepReturnsTrue(w)
            /\ DropState(w)
            /\ SleepLocalsDropped(w)
       ELSE /\ st' = [ st EXCEPT ![w] = WorkerWord(w) ]
            /\ UNCHANGED << lifecycle, pushed, pc, sleep_until, drop_thread >>
    /\ UNCHANGED << sleep_stack, num_futures, terminated, inbound, deque,
                    cv_signal, ret, tgt, pst, first, consistent, found_work,
                    spin_cnt, idx, start, cur, stolen, should_finalize,
                    env >>

\* lines 438-450
Phase2Back(w) == pc[w] = "p2_back" /\ BackToRunning(w)

\* lines 511-523
WakeBack(w) == pc[w] = "wake_back" /\ BackToRunning(w)

\* lines 471-472: sleep_until = keep_alive.map(|dur| Instant::now() + dur)
SleepUntil(w) ==
    /\ pc[w] = "sleep_until"
    /\ sleep_until' = [ sleep_until EXCEPT ![w] =
                          IF keep_alive = None THEN None
                          ELSE Some(now + Unwrap(keep_alive)) ]
    /\ Goto(w, "wait_prep")
    /\ UNCHANGED << shared, ret, tgt, st, pst, first, consistent, found_work,
                    spin_cnt, idx, start, cur, stolen, should_finalize,
                    drop_thread, env >>

\* lines 477-496: drop_thread is set when the deadline is not yet behind
\* the clock; `when - now` with when < now panics or, where Instant
\* subtraction saturates, gives a zero timeout; then the condvar wait
\* releases park_mutex
WaitPrep(w) ==
    /\ pc[w] = "wait_prep"
    /\ IF sleep_until[w] = None
       THEN /\ drop_thread' = [ drop_thread EXCEPT ![w] = FALSE ]
            /\ Goto(w, "wait")
       ELSE /\ drop_thread' = [ drop_thread EXCEPT ![w] =
                                  (Unwrap(sleep_until[w]) >= now) ]
            /\ IF Unwrap(sleep_until[w]) >= now
               THEN Goto(w, "wait")
               ELSE Goto(w, "wait") \/ Goto(w, "panicked")
    /\ UNCHANGED << shared, ret, tgt, st, pst, first, consistent, found_work,
                    spin_cnt, idx, start, cur, stolen, should_finalize,
                    sleep_until, env >>

\* the condvar wait ends: park_mutex is held again (line 498)
CondvarWake(w) ==
    /\ pc[w] = "wait"
    /\ cv_signal' = [ cv_signal EXCEPT ![w] = FALSE ]
    /\ Goto(w, "woken")
    /\ UNCHANGED << lifecycle, pushed, sleep_stack, num_futures, terminated,
                    inbound, deque, ret, tgt, locals, env >>

\* the wait ends because the condvar was notified
WakeNotified(w) == cv_signal[w] /\ CondvarWake(w)

\* wait_timeout ends because its duration (when - now) has passed
WakeTimeout(w) ==
    /\ sleep_until[w] # None
    /\ now >= Unwrap(sleep_until[w])
    /\ CondvarWake(w)

\* condvars can wake up spuriously (line 475)
WakeSpurious(w) == ~ cv_signal[w] /\ CondvarWake(w)

\* line 501: state = self.entry().state.load(Acquire)
Woken(w) ==
    /\ pc[w] = "woken"
    /\ st' = [ st EXCEPT ![w] = WorkerWord(w) ]
    /\ Goto(w, "post_wake")
    /\ UNCHANGED << shared, ret, tgt, pst, first, consistent, found_work,
                    spin_cnt, idx, start, cur, stolen, should_finalize,
                    sleep_until, drop_thread, env >>

\* lines 503-544: Notified and Signaled drop the lock and go back to
\* Running; Sleeping waits again unless drop_thread, which sets Shutdown by
\* CAS and returns false
PostWake(w) ==
    /\ pc[w] = "post_wake"
    /\ CASE st[w].lc = "Sleeping" ->
              IF ~ drop_thread[w]
              THEN /\ Goto(w, "wait_prep")
                   /\ DropState(w)
                   /\ UNCHANGED << lifecycle, pushed, sleep_until,
                                   drop_thread >>
              ELSE IF WorkerWord(w) = st[w]
                   THEN /\ SetWord(w, [ st[w] EXCEPT !.lc = "Shutdown" ])
                        /\ SleepReturnsFalse(w)
                        /\ DropState(w)
                        /\ SleepLocalsDropped(w)
                   ELSE /\ st' = [ st EXCEPT ![w] = WorkerWord(w) ]
                        /\ UNCHANGED << lifecycle, pushed, pc, sleep_until,
                                        drop_thread >>
         [] IsNotified(st[w]) ->
              /\ Goto(w, "wake_back")
              /\ UNCHANGED << lifecycle, pushed, st, sleep_until,
                              drop_thread >>
         [] OTHER ->
              /\ Goto(w, "panicked")
              /\ UNCHANGED << lifecycle, pushed, st, sleep_until,
                              drop_thread >>
    /\ UNCHANGED << sleep_stack, num_futures, terminated, inbound, deque,
                    cv_signal, ret, tgt, pst, first, consistent, found_work,
                    spin_cnt, idx, start, cur, stolen, should_finalize,
                    env >>

(* --------------------------- Drop for Worker --------------------------- *)

\* lines 555-558: the thread's closure ends and the worker is dropped; only a
\* worker with should_finalize set finalizes
DropWorker(w) ==
    /\ pc[w] = "exited"
    /\ IF should_finalize[w]
       THEN Goto(w, "drop_drain")
       ELSE Goto(w, "dropped")
    /\ UNCHANGED << shared, ret, tgt, locals, env >>

\* line 559: self.drain_inbound(), its result unused
DropDrain(w) ==
    /\ pc[w] = "drop_drain"
    /\ IF inbound[w] # << >>
       THEN /\ inbound' = [ inbound EXCEPT ![w] = Tail(@) ]
            /\ deque' = [ deque EXCEPT ![w] = Append(@, Head(inbound[w])) ]
            /\ found_work' = [ found_work EXCEPT ![w] = TRUE ]
            /\ UNCHANGED << pc, ret >>
       ELSE /\ found_work' = [ found_work EXCEPT ![w] = FALSE ]
            /\ IF found_work[w]
               THEN CallSignalWork(w, "drop_pop")
               ELSE Goto(w, "drop_pop") /\ UNCHANGED ret
            /\ UNCHANGED << inbound, deque >>
    /\ UNCHANGED << lifecycle, pushed, sleep_stack, num_futures, terminated,
                    cv_signal, tgt, st, pst, first, consistent, spin_cnt,
                    idx, start, cur, stolen, should_finalize, sleep_until,
                    drop_thread, env >>

\* lines 561-565: the deque is popped until it is empty, each task
\* discarded; then self.inner.worker_terminated()
DropPop(w) ==
    /\ pc[w] = "drop_pop"
    /\ IF deque[w] # << >>
       THEN /\ deque' = [ deque EXCEPT ![w] = SubSeq(@, 1, Len(@) - 1) ]
            /\ discarded' = discarded \cup { deque[w][Len(deque[w])] }
            /\ UNCHANGED << pc, num_terminated >>
       ELSE /\ num_terminated' = num_terminated + 1
            /\ Goto(w, "dropped")
            /\ UNCHANGED << deque, discarded >>
    /\ UNCHANGED << lifecycle, pushed, sleep_stack, num_futures, terminated,
                    inbound, cv_signal, ret, tgt, locals, keep_alive, now,
                    etask, etarget, submitted, handed, completed, polls,
                    idle, done, handle_vars >>

\* Worker::run has returned
Returned(w) ==
    \/ pc[w] \in { "exited", "drop_drain", "drop_pop", "dropped" }
    \/ ret[w] = "drop_pop"

(* ----------------------- runtime::Handle (handle.rs) ------------------ *)

Handles == 1 .. MaxHandles

\* context::current(): a clone of the handle set on this thread, if any
ContextCurrent == context

\* Option::expect: the value, or a panic on None
Expect(o) ==
    IF o = None THEN [ kind |-> "Panic", handle |-> None ]
                ELSE [ kind |-> "Value", handle |-> o ]

\* Option::ok_or: Ok of the value, or Err on None
OkOr(o) ==
    IF o = None THEN [ kind |-> "Err", handle |-> None ]
                ELSE [ kind |-> "Ok", handle |-> o ]

\* Handle::enter that leaves the context of the thread as it is
HandleEnterKeepsContext(h) ==
    /\ Len(entered) < MaxEnterDepth
    /\ entered' = Append(entered, context)
    /\ UNCHANGED << shared, pc, ret, tgt, locals, keep_alive, now, etask,
                    etarget, submitted, handed, completed, polls, idle, done,
                    finalized, context, outcome >>

\* lines 67-72: context::enter(self.clone(), f) sets the handle as the
\* context of the thread for the time f runs
HandleEnter(h) ==
    /\ Len(entered) < MaxEnterDepth
    /\ entered' = Append(entered, context)
    /\ context' = Some(h)
    /\ UNCHANGED << shared, pc, ret, tgt, locals, keep_alive, now, etask,
                    etarget, submitted, handed, completed, polls, idle, done,
                    finalized, outcome >>

\* f returns: context::enter puts the previous context back
HandleLeave ==
    /\ entered # << >>
    /\ context' = entered[Len(entered)]
    /\ entered' = SubSeq(entered, 1, Len(entered) - 1)
    /\ UNCHANGED << shared, pc, ret, tgt, locals, keep_alive, now, etask,
                    etarget, submitted, handed, completed, polls, idle, done,
                    finalized, outcome >>

\* lines 100-102: context::current().expect(..)
HandleCurrent ==
    /\ outcome' = [ call |-> "current", kind |-> Expect(ContextCurrent).kind,
                    handle |-> Expect(ContextCurrent).handle ]
    /\ UNCHANGED << shared, pc, ret, tgt, locals, keep_alive, now, etask,
                    etarget, submitted, handed, completed, polls, idle, done,
                    finalized, context, entered >>

\* lines 109-111: context::current().ok_or(TryCurrentError(()))
HandleTryCurrent ==
    /\ outcome' = [ call |-> "try_current", kind |-> OkOr(ContextCurrent).kind,
                    handle |-> OkOr(ContextCurrent).handle ]
    /\ UNCHANGED << shared, pc, ret, tgt, locals, keep_alive, now, etask,
                    etarget, submitted, handed, completed, polls, idle, done,
                    finalized, context, entered >>

\* a thread that enters runtimes and asks for the current handle
NextHandle ==
    \/ \E h \in Handles : HandleEnter(h)
    \/ HandleLeave
    \/ HandleCurrent
    \/ HandleTryCurrent

SpecHandle == InitOneWorker /\ [][NextHandle]_vars

(* ------------------ the external thread (spec section 6) --------------- *)

\* submit(task): a target worker is chosen and the push onto its inbound
\* queue begins; a terminated pool rejects the task
SubmitBegin ==
    /\ pc[Ext] = "ext_idle"
    /\ ~ terminated
    /\ handed < MaxTasks
    /\ handed' = handed + 1
    /\ etask' = Some(handed + 1)
    /\ \E w \in Pool : etarget' = w
    /\ Goto(Ext, "push_mid")
    /\ ret' = [ ret EXCEPT ![Ext] = "inc" ]
    /\ UNCHANGED << shared, tgt, locals, keep_alive, now, submitted,
                    completed, polls, idle, done, finalized, handle_vars >>

\* the notifier of an idle task re-submits it: the same path as submit,
\* minus the num_futures increment
NotifierFire ==
    /\ pc[Ext] = "ext_idle"
    /\ ~ terminated
    /\ \E t \in idle :
          /\ idle' = idle \ { t }
          /\ etask' = Some(t)
    /\ \E w \in Pool : etarget' = w
    /\ Goto(Ext, "push_mid")
    /\ ret' = [ ret EXCEPT ![Ext] = "ext_idle" ]
    /\ UNCHANGED << shared, tgt, locals, keep_alive, now, submitted, handed,
                    completed, polls, done, finalized, handle_vars >>

\* the push completes (the node is linked), then signal_work is called
PushLink ==
    /\ pc[Ext] = "push_mid"
    /\ inbound' = [ inbound EXCEPT ![etarget] = Append(@, Unwrap(etask)) ]
    /\ etask' = None
    /\ etarget' = 0
    /\ Goto(Ext, "sig_pop")
    /\ UNCHANGED << lifecycle, pushed, sleep_stack, num_futures, terminated,
                    deque, cv_signal, ret, tgt, locals, keep_alive, now,
                    submitted, handed, completed, polls, idle, done,
                    finalized, handle_vars >>

\* submit ends by incrementing the pool's num_futures
SubmitInc ==
    /\ pc[Ext] = "inc"
    /\ num_futures' = num_futures + 1
    /\ submitted' = submitted + 1
    /\ Goto(Ext, "ext_idle")
    /\ UNCHANGED << lifecycle, pushed, sleep_stack, terminated, inbound,
                    deque, cv_signal, ret, tgt, locals, keep_alive, now,
                    etask, etarget, handed, completed, polls, idle, done,
                    finalized, handle_vars >>

\* shutdown(pool): set the terminated bit; with num_futures = 0 wake all
\* sleepers
Shutdown ==
    /\ pc[Ext] = "ext_idle"
    /\ ~ terminated
    /\ terminated' = TRUE
    /\ IF num_futures = 0
       THEN CallTerminate(Ext, "ext_idle")
       ELSE UNCHANGED << pc, ret >>
    /\ UNCHANGED << lifecycle, pushed, sleep_stack, num_futures, inbound,
                    deque, cv_signal, tgt, locals, env >>

\* time passes; the clock is read only against a deadline (lines 481-487),
\* so it is followed while some worker has one: up to MaxTime, and beyond it
\* as long as a deadline lies ahead
Tick ==
    /\ \E w \in Workers : sleep_until[w] # None
    /\ \/ now < MaxTime
       \/ \E w \in Workers :
             sleep_until[w] # None /\ Unwrap(sleep_until[w]) > now
    /\ now' = now + 1
    /\ UNCHANGED << shared, pc, ret, tgt, locals, keep_alive, etask, etarget,
                    submitted, handed, completed, polls, idle, done,
                    finalized, handle_vars >>

(* --------------------------- specifications --------------------------- *)

\* one step of Worker::run inside its loop
LoopStep(w) ==
    \/ CheckRunStateLoad(w)
    \/ CheckRunStatePool(w)
    \/ CheckRunStateCas(w)
    \/ DrainInbound(w)
    \/ TryRunTask(w)
    \/ TryStealBegin(w)
    \/ StealStep(w)
    \/ RunTask(w)
    \/ CompleteLoad(w)
    \/ CompleteCas(w)
    \/ AfterRun(w)
    \/ SpinOrSleep(w)
    \/ SleepLoad(w)
    \/ SleepPhase1(w)
    \/ SleepPush(w)
    \/ SleepLock(w)
    \/ SleepPhase2(w)
    \/ Phase2Back(w)
    \/ SleepUntil(w)
    \/ WaitPrep(w)
    \/ WakeNotified(w)
    \/ Woken(w)
    \/ PostWake(w)
    \/ WakeBack(w)

\* the drop of a worker that finalizes
FinalizeStep(w) == DropDrain(w) \/ DropPop(w)

WorkerStep(w) ==
    \/ LoopStep(w)
    \/ SetFinalize(w)
    \/ DropWorker(w)
    \/ FinalizeStep(w)

SignalStep(p) ==
    \/ SignalPop(p)
    \/ SignalTransition(p)
    \/ SignalWake(p)

TerminateStep(p) ==
    \/ TerminatePop(p)
    \/ TerminateTransition(p)
    \/ TerminateWake(p)

PoolStep(p) == SignalStep(p) \/ TerminateStep(p)

\* the calls in flight of the external thread
ExtProgress == PushLink \/ SubmitInc

ExtStep ==
    \/ SubmitBegin
    \/ NotifierFire
    \/ ExtProgress
    \/ Shutdown

Next ==
    \/ \E w \in Workers : WorkerStep(w)
    \/ \E w \in Workers : WakeSpurious(w)
    \/ \E p \in Procs : PoolStep(p)
    \/ ExtStep

\* a pool without keep-alive
Spec == Init /\ [][Next]_vars

\* a pool with keep-alive that is not shut down: the wait can time out
NextKeepAlive ==
    \/ \E w \in Workers : LoopStep(w)
    \/ \E w \in Workers : DropWorker(w)
    \/ \E w \in Workers : WakeSpurious(w)
    \/ \E w \in Workers : WakeTimeout(w)
    \/ \E p \in Procs : SignalStep(p)
    \/ SubmitBegin
    \/ NotifierFire
    \/ ExtProgress
    \/ Tick

SpecKeepAlive == InitKeepAlive /\ [][NextKeepAlive]_vars

\* the steps of a worker that finds no work: the loop up to sleep, and the
\* wait with its timeout
IdleStep(w) ==
    \/ CheckRunStateLoad(w)
    \/ CheckRunStatePool(w)
    \/ CheckRunStateCas(w)
    \/ DrainInbound(w)
    \/ TryRunTask(w)
    \/ TryStealBegin(w)
    \/ StealStep(w)
    \/ SpinOrSleep(w)
    \/ SleepLoad(w)
    \/ SleepPhase1(w)
    \/ SleepPush(w)
    \/ SleepLock(w)
    \/ SleepPhase2(w)
    \/ SleepUntil(w)
    \/ WaitPrep(w)
    \/ Woken(w)
    \/ PostWake(w)
    \/ WakeTimeout(w)
    \/ DropWorker(w)

\* a pool with keep-alive to which no work ever arrives
NextNoWork ==
    \/ \E w \in Workers : IdleStep(w)
    \/ \E w \in Workers : WakeSpurious(w)
    \/ Tick

SpecNoWork == InitKeepAlive /\ [][NextNoWork]_vars

\* every thread that can take a step is scheduled in the end; nothing
\* obliges the outside to call submit or shutdown, a notifier to fire, or a
\* condvar to wake up spuriously
Fairness ==
    /\ \A w \in Workers : WF_vars(WorkerStep(w) \/ PoolStep(w))
    /\ WF_vars(PoolStep(Ext) \/ ExtProgress)

FairSpec == Spec /\ Fairness

\* the same for the pool without work: every worker is scheduled, a wait
\* whose timeout has passed ends, and time passes
FairnessNoWork ==
    /\ \A w \in Workers : WF_vars(IdleStep(w))
    /\ WF_vars(Tick)

FairSpecNoWork == SpecNoWork /\ FairnessNoWork

\* run_task for a task whose run returns Complete
RunTaskComplete(w) == RunTask(w) /\ pc'[w] = "complete_load"

\* the run loop of scenario 1: every run returns Complete
SingleTaskStep(w) ==
    \/ CheckRunStateLoad(w)
    \/ CheckRunStatePool(w)
    \/ CheckRunStateCas(w)
    \/ DrainInbound(w)
    \/ TryRunTask(w)
    \/ TryStealBegin(w)
    \/ StealStep(w)
    \/ RunTaskComplete(w)
    \/ CompleteLoad(w)
    \/ CompleteCas(w)
    \/ AfterRun(w)
    \/ SpinOrSleep(w)
    \/ SleepLoad(w)
    \/ SleepPhase1(w)
    \/ SleepPush(w)
    \/ SleepLock(w)
    \/ SleepPhase2(w)
    \/ Phase2Back(w)
    \/ SleepUntil(w)
    \/ WaitPrep(w)
    \/ WakeNotified(w)
    \/ Woken(w)
    \/ PostWake(w)
    \/ WakeBack(w)

\* scenario 1 (spec 8): a pool without keep-alive that is not shut down and
\* is handed tasks that complete at their first run
NextSingleTask ==
    \/ \E w \in Workers : SingleTaskStep(w)
    \/ \E w \in Workers : WakeSpurious(w)
    \/ \E p \in Procs : SignalStep(p)
    \/ SubmitBegin
    \/ ExtProgress

\* pools of every size up to NumWorkers, without keep-alive
InitAnyPool == \E n \in 1 .. NumWorkers : InitPool(n) /\ keep_alive = None

SpecAnyPool == InitAnyPool /\ [][Next]_vars

\* a pool of one worker (spec 8, boundary behavior)
SpecOneWorker == InitOneWorker /\ [][Next]_vars

\* a pool built with or without keep-alive
InitAnyKeepAlive ==
    InitCommon /\ keep_alive \in { None } \cup { Some(d) : d \in 0 .. MaxKeepAlive }

\* everything together: workers, signalers, shutdown and keep-alive, with
\* tasks that complete at their first run
NextAll ==
    \/ \E w \in Workers : SingleTaskStep(w)
    \/ \E w \in Workers : SetFinalize(w)
    \/ \E w \in Workers : DropWorker(w)
    \/ \E w \in Workers : FinalizeStep(w)
    \/ \E w \in Workers : WakeSpurious(w)
    \/ \E w \in Workers : WakeTimeout(w)
    \/ \E p \in Procs : PoolStep(p)
    \/ SubmitBegin
    \/ ExtProgress
    \/ Shutdown
    \/ Tick

SpecAll == InitAnyKeepAlive /\ [][NextAll]_vars

\* the pool from the moment its workers enter Worker::sleep
SpecSleepEntry == InitSleepEntry /\ [][Next]_vars

SpecSingleTask == Init /\ [][NextSingleTask]_vars

\* deque.steal() gives Data: the deque is lock-free, so Retry cannot be the
\* answer to every steal for ever
ObtainsTask(w) == (TryRunTask(w) \/ StealStep(w)) /\ cur'[w] # None

\* every thread is scheduled, a signaler that keeps trying gets the
\* park_mutex of the entry it notifies, and a steal that keeps being tried
\* on a non-empty deque succeeds
FairnessSingleTask ==
    /\ \A w \in Workers : WF_vars(SingleTaskStep(w) \/ SignalStep(w))
    /\ WF_vars(SignalStep(Ext) \/ ExtProgress)
    /\ \A p \in Procs : SF_vars(SignalWake(p))
    /\ \A w \in Workers : SF_vars(ObtainsTask(w))

FairSpecSingleTask == SpecSingleTask /\ FairnessSingleTask

\* run_task for a task whose run returns Schedule
RunTaskReschedule(w) == RunTask(w) /\ pc'[w] = "after_run" /\ idle' = idle

\* the run loop with tasks that return Schedule or Complete, never Idle
RescheduleStep(w) ==
    \/ SingleTaskStep(w)
    \/ RunTaskReschedule(w)
    \/ SetFinalize(w)
    \/ DropWorker(w)
    \/ FinalizeStep(w)

\* a pool without keep-alive whose tasks are rescheduled or complete
NextReschedule ==
    \/ \E w \in Workers : RescheduleStep(w)
    \/ \E w \in Workers : WakeSpurious(w)
    \/ \E p \in Procs : PoolStep(p)
    \/ SubmitBegin
    \/ ExtProgress
    \/ Shutdown

SpecReschedule == Init /\ [][NextReschedule]_vars

(* ------------------------------ properties ---------------------------- *)

\* how often task t occurs in the queue q
CountIn(q, t) == Cardinality({ i \in DOMAIN q : q[i] = t })

RECURSIVE SumOver(_, _)
SumOver(f, S) ==
    IF S = { } THEN 0
    ELSE LET x == CHOOSE y \in S : TRUE IN f[x] + SumOver(f, S \ { x })

\* in how many places task t resides: the inbound queues, the deques, the
\* local variable of a worker that runs it, the completed state
Places(t) ==
    SumOver([ w \in Workers |-> CountIn(inbound[w], t) + CountIn(deque[w], t)
                                + (IF cur[w] = Some(t) THEN 1 ELSE 0) ],
            Workers)
    + (IF t \in done THEN 1 ELSE 0)

\* the task was discarded by the drop of a worker
Discarded(t) == t \in discarded

\* the worker thread is blocked in the condvar wait with nothing to wake it
Parked(w) == pc[w] = "wait" /\ ~ cv_signal[w] /\ lifecycle[w] = "Sleeping"

\* the worker thread has ended
Gone(w) == pc[w] \in { "dropped", "panicked" }

\* no submit, notifier or shutdown call is under way and every worker is
\* parked or gone: only a new call from outside changes anything
AtRest == pc[Ext] = "ext_idle" /\ \A w \in Workers : Parked(w) \/ Gone(w)

\* C1: every submitted task is eventually run: the pool never comes to rest
\* (all workers parked, no call under way, no shutdown requested) with a
\* task still in an inbound queue, where it would stay forever
C1_NoTaskStuckInInbound ==
    ~ (AtRest /\ ~ terminated /\ \E w \in Workers : inbound[w] # << >>)

\* C2: no worker has lifecycle Sleeping while some inbound queue is
\* non-empty (a Sleeping worker is itself a worker that is not running)
C2_NoSleepingWithInbound ==
    \A w \in Workers :
        lifecycle[w] = "Sleeping" => \A v \in Workers : inbound[v] = << >>

\* runs that returned Complete whose decrement of num_futures is under way
InFlightDec ==
    Cardinality({ w \in Workers : pc[w] \in { "complete_load", "complete_cas" } })

\* C4: num_futures equals the number of tasks submitted minus the number of
\* runs that returned Complete, and never underflows
C4_NumFuturesBalance ==
    /\ num_futures >= 0
    /\ num_futures = submitted - (completed - InFlightDec)

\* C5: at most one worker owns the execution of a given task at any time
C5_OneOwner ==
    \A t \in Tasks : Cardinality({ w \in Workers : cur[w] = Some(t) }) <= 1

\* a peer has stolen the task while its owner was taking from the same deque
C5_Witness ==
    \E w \in Workers :
        /\ stolen[w]
        /\ cur[w] # None
        /\ \E v \in Workers \ { w } : pc[v] \in { "try_run", "steal" }

\* the tasks submitted so far: those whose first push is done
Submitted == { t \in 1 .. handed : ~ (etask = Some(t) /\ polls[t] = 0) }

\* the task is with its notifier: its last run returned Idle and it is in
\* no queue until the notifier has pushed it again
WithNotifier(t) == t \in idle \/ (etask = Some(t) /\ polls[t] > 0)

\* C6 as stated: each submitted task resides in exactly one of an inbound
\* queue, a deque, a running worker's local variable, the completed state
C6_ExactlyOnePlace == \A t \in Submitted : Places(t) = 1

\* C6: each submitted task resides in exactly one of an inbound queue, a
\* deque, a running worker's local variable, the completed state or, after
\* a run that returned Idle, with its notifier, unless the drop of a worker
\* has discarded it
C6_ExactlyOnePlaceOrIdle ==
    \A t \in Submitted :
        Places(t) + (IF WithNotifier(t) THEN 1 ELSE 0)
                  + (IF Discarded(t) THEN 1 ELSE 0) = 1

\* a run has returned Idle: the task is in no queue, and the worker that
\* ran it has gone on
C6_Witness ==
    \E t \in Submitted :
        /\ t \in idle
        /\ Places(t) = 0
        /\ \E w \in Workers : pc[w] = "after_run"

\* C7: no worker's run loop exits while num_futures > 0
C7_NoExitWithFutures ==
    [][ \A w \in Workers :
          (pc[w] = "crs_pool" /\ pc'[w] = "set_finalize") => num_futures <= 0
      ]_vars

\* no signal_work or terminate_sleeping_workers call is under way
NoPoolCall ==
    \A p \in Procs :
        pc[p] \notin { "sig_pop", "sig_trans", "sig_wake",
                       "term_pop", "term_trans", "term_wake" }

\* on a terminated pool with num_futures zero, no worker is parked once the
\* calls that wake the sleepers have returned
C8_NoParkedAfterTermination ==
    (terminated /\ num_futures = 0 /\ NoPoolCall /\ pc[Ext] = "ext_idle")
        => \A w \in Workers : ~ Parked(w)

\* the worker is inside Worker::sleep
InSleep(w) ==
    pc[w] \in { "sleep_load", "sleep_p1", "sleep_push", "sleep_lock",
                "sleep_p2", "p2_back", "sleep_until", "wait_prep", "wait",
                "woken", "post_wake", "wake_back" }

\* C3: the sleep protocol never loses a wakeup: a call of sleep() during
\* which the worker's lifecycle is Notified or Signaled ends only by
\* returning true, with the lifecycle back to Running
C3_NoLostWakeup ==
    [][ \A w \in Workers :
          (InSleep(w) /\ IsNotified(WorkerWord(w)) /\ ~ InSleep(w)')
              => (pc'[w] = "crs_load" /\ lifecycle'[w] = "Running")
      ]_vars

\* C9: with a keep-alive and no work ever arriving, every worker ends with
\* lifecycle Shutdown and its sleep() returned false
C9_AllShutdown ==
    <>(\A w \in Workers : lifecycle[w] = "Shutdown" /\ Returned(w))

\* C10: a worker goes from Sleeping to Shutdown only if the keep-alive has
\* expired: the clock has reached the deadline of its sleep
C10_ShutdownOnlyWhenExpired ==
    [][ \A w \in Workers :
          (lifecycle[w] = "Sleeping" /\ lifecycle'[w] = "Shutdown")
              => (sleep_until[w] # None /\ now >= Unwrap(sleep_until[w]))
      ]_vars

\* C8: once the pool is terminated and num_futures is zero, no worker is
\* left parked when the calls that wake the sleepers have returned, and
\* every worker's run loop returns in the end
C8_WokenAndReturned ==
    /\ [] C8_NoParkedAfterTermination
    /\ (terminated /\ num_futures = 0) ~> (\A w \in Workers : Returned(w))

\* the run that completed the last task of a terminated pool wakes a
\* parked worker
C8_Witness ==
    /\ terminated
    /\ num_futures = 0
    /\ \E p \in Workers :
          /\ pc[p] = "term_wake"
          /\ pc[Unwrap(tgt[p])] = "wait"
          /\ lifecycle[Unwrap(tgt[p])] = "Notified"

\* C11: whenever the run loop has returned, by whichever exit path, the
\* worker has set its finalize flag, and every worker that was dropped has
\* notified the pool exactly once, with its inbound drained and its deque
\* emptied at that moment
C11_FinalizeOnEveryExit ==
    /\ \A w \in Workers : Returned(w) => should_finalize[w]
    /\ num_terminated = Cardinality({ w \in Workers : pc[w] = "dropped" })

\* process p takes a step of signal_work
SignalWorkMoves(p) ==
    /\ pc[p] \in { "sig_pop", "sig_trans", "sig_wake" }
    /\ pc'[p] # pc[p]

\* signal_work returns to its caller in this step
SignalWorkReturns(p) == pc'[p] = ret[p] /\ ret'[p] = "none"

\* the table of signal_work for a popped entry h
SignalTable(p, h) ==
    CASE lifecycle[h] = "Sleeping" ->
           /\ lifecycle' = [ lifecycle EXCEPT ![h] = "Notified" ]
           /\ pc'[p] = "sig_wake"
      [] lifecycle[h] = "Running" ->
           /\ lifecycle' = [ lifecycle EXCEPT ![h] = "Signaled" ]
           /\ SignalWorkReturns(p)
      [] lifecycle[h] = "Notified" ->
           /\ lifecycle' = lifecycle
           /\ SignalWorkReturns(p)
      [] lifecycle[h] \in { "Signaled", "Shutdown" } ->
           /\ lifecycle' = lifecycle
           /\ pc'[p] = "sig_pop"

\* C12: signal_work pops the top of sleep_stack and clears the pushed bit of
\* the popped entry; it changes the popped entry by the table (Sleeping to
\* Notified and then a condvar notify not overlapping the entry's hold of
\* park_mutex, Running to Signaled, Notified left alone, Signaled or
\* Shutdown another pop); on an empty stack no worker state changes
C12_SignalWorkTable ==
    [][ \A p \in Procs : SignalWorkMoves(p) =>
          CASE pc[p] = "sig_pop" ->
                 IF sleep_stack = << >>
                 THEN /\ SignalWorkReturns(p)
                      /\ UNCHANGED << lifecycle, pushed, sleep_stack, cv_signal >>
                 ELSE /\ sleep_stack' = Tail(sleep_stack)
                      /\ pushed' = [ pushed EXCEPT ![Head(sleep_stack)] = FALSE ]
                      /\ tgt'[p] = Some(Head(sleep_stack))
                      /\ pc'[p] = "sig_trans"
                      /\ UNCHANGED << lifecycle, cv_signal >>
            [] pc[p] = "sig_trans" ->
                 /\ SignalTable(p, Unwrap(tgt[p]))
                 /\ UNCHANGED << pushed, sleep_stack, cv_signal >>
            [] pc[p] = "sig_wake" ->
                 /\ ~ HoldsParkMutex(Unwrap(tgt[p]))
                 /\ cv_signal'[Unwrap(tgt[p])] =
                      (cv_signal[Unwrap(tgt[p])] \/ pc[Unwrap(tgt[p])] = "wait")
                 /\ SignalWorkReturns(p)
                 /\ UNCHANGED << lifecycle, pushed, sleep_stack >> ]_vars

\* a signaler popped a Sleeping entry, made it Notified and is about to
\* notify its condvar
C12_Witness ==
    \E p \in Procs :
        /\ pc[p] = "sig_wake"
        /\ lifecycle[Unwrap(tgt[p])] = "Notified"
        /\ ~ pushed[Unwrap(tgt[p])]
        /\ pc[Unwrap(tgt[p])] = "wait"

\* worker w itself consumes the Signaled state of its entry in this step
ConsumesSignaled(w) ==
    /\ pc'[w] # pc[w]
    /\ lifecycle[w] = "Signaled"
    /\ lifecycle'[w] # "Signaled"

\* C13: on every path by which a worker consumes the Signaled state of its
\* entry, inside sleep() included, it calls signal_work itself; the only
\* exception is the first iteration of the run loop
C13_WakeupChain ==
    [][ \A w \in Workers :
          (ConsumesSignaled(w) /\ ~ first[w]) => pc'[w] = "sig_pop" ]_vars

\* C14: with two workers and one submitted task that returns Complete,
\* under fair scheduling the task is run exactly once, num_futures ends at
\* 0, and both workers reach lifecycle Sleeping and stay parked
C14_SingleTaskTwoWorkers ==
    /\ [](\A t \in Tasks : polls[t] <= 1)
    /\ (handed = 1) ~> [](/\ polls[1] = 1
                          /\ num_futures = 0
                          /\ \A w \in Workers :
                                lifecycle[w] = "Sleeping" /\ InSleep(w))

\* the pool has come to rest with task t completed
FinalWith(t) == AtRest /\ t \in done

\* the final pool state of a task that is run once and returns Complete:
\* num_futures is 0, every queue is empty, nothing was discarded, and the
\* workers are all Sleeping on the sleep stack if the pool was not shut
\* down, and none of them is if it was
FinalPoolState ==
    /\ num_futures = 0
    /\ \A w \in Workers : inbound[w] = << >> /\ deque[w] = << >>
    /\ discarded = { }
    /\ IF terminated
       THEN /\ sleep_stack = << >>
            /\ \A w \in Workers : lifecycle[w] # "Sleeping" /\ Gone(w)
       ELSE /\ Len(sleep_stack) = NumWorkers
            /\ \A w \in Workers : lifecycle[w] = "Sleeping" /\ pushed[w]

\* C15: a task whose first run returns Reschedule and whose second run
\* returns Complete leaves the pool in the same final state (num_futures,
\* terminated bit, queue contents, lifecycles at rest) as a task that is
\* run once and returns Complete
C15_RescheduleThenComplete ==
    \A t \in Tasks :
        /\ (FinalWith(t) /\ polls[t] = 1) => FinalPoolState
        /\ (FinalWith(t) /\ polls[t] = 2) => FinalPoolState

\* the pool at rest after a task was rescheduled once and then completed
C15_Witness == FinalWith(1) /\ polls[1] = 2 /\ ~ terminated

\* worker w takes a step of try_steal_task
StealMoves(w) ==
    /\ pc[w] = "steal"
    /\ << pc[w], idx[w], found_work[w] >>' # << pc[w], idx[w], found_work[w] >>

\* C16: in a pool of one worker try_steal_task is a no-op: it obtains and
\* runs no task, calls signal_work never and returns false, which takes the
\* run loop on to its spin and sleep
C16_StealNoOpOneWorker ==
    [][ \A w \in Workers : StealMoves(w) =>
          /\ pc'[w] = "spin"
          /\ cur'[w] = None /\ ~ stolen'[w]
          /\ UNCHANGED << shared, ret, polls >> ]_vars

\* the one worker is back from try_steal_task while a task waits in its
\* inbound queue
C16_Witness ==
    /\ WorkersLen = 1
    /\ \E w \in Pool : pc[w] = "spin" /\ inbound[w] # << >>

\* a call of Handle::current or Handle::try_current is made in this step
HandleCalled(c) == outcome' # outcome /\ outcome'.call = c

\* C17: Handle::try_current never panics, gives an error exactly when no
\* context is set on the thread and the handle that is set otherwise;
\* Handle::current panics exactly when try_current gives an error and gives
\* the same handle otherwise; inside Handle::enter both give a handle
C17_TryCurrentNeverPanics ==
    [][ /\ HandleCalled("try_current") =>
              /\ outcome'.kind # "Panic"
              /\ outcome'.kind = "Err" <=> context = None
              /\ outcome'.kind = "Ok" <=> outcome'.handle = context /\ context # None
        /\ HandleCalled("current") =>
              /\ outcome'.kind = "Panic" <=> OkOr(context).kind = "Err"
              /\ outcome'.kind = "Value" <=> outcome'.handle = OkOr(context).handle
                                             /\ OkOr(context).kind = "Ok"
        /\ (outcome' # outcome /\ entered # << >>) =>
              /\ outcome'.kind \in { "Ok", "Value" }
              /\ outcome'.handle # None ]_vars

\* Handle::current was called inside two nested enter calls and gave the
\* handle of the inner one
C17_Witness ==
    /\ Len(entered) = 2
    /\ entered[2] # None /\ entered[2] # context
    /\ outcome = [ call |-> "current", kind |-> "Value", handle |-> context ]

\* worker w takes a step of the CAS loop of phase 1
Phase1Moves(w) ==
    /\ pc[w] = "sleep_p1"
    /\ << pc[w], st[w] >>' # << pc[w], st[w] >>

\* C18: in phase 1 of sleep(), a worker whose lifecycle is Notified or
\* Signaled sets it to Running and returns true at once (after a reload if
\* the word changed since it was loaded): it pushes nothing onto
\* sleep_stack, leaves the pushed bit alone and does not go on to park_mutex
C18_Phase1AlreadyNotified ==
    [][ \A w \in Workers :
          (Phase1Moves(w) /\ lifecycle[w] \in { "Notified", "Signaled" }) =>
             /\ sleep_stack' = sleep_stack
             /\ pushed' = pushed
             /\ IF st[w] = WorkerWord(w)
                THEN /\ lifecycle' = [ lifecycle EXCEPT ![w] = "Running" ]
                     /\ pc'[w] = "crs_load"
                ELSE /\ lifecycle' = lifecycle
                     /\ pc'[w] = "sleep_p1"
                     /\ st'[w] = WorkerWord(w) ]_vars

\* a worker is in phase 1 with a Notified or Signaled lifecycle that its
\* CAS will find
C18_Witness ==
    \E w \in Workers :
        /\ pc[w] = "sleep_p1"
        /\ st[w] = WorkerWord(w)
        /\ lifecycle[w] \in { "Notified", "Signaled" }

\* worker w is on the sleep stack
OnSleepStack(w) == \E i \in DOMAIN sleep_stack : sleep_stack[i] = w

\* C19: when push_sleeper is rejected because the pool is terminated,
\* sleep() returns true without taking park_mutex or waiting, and the run
\* loop ends at its next check_run_state, no task being run in between
C19_RejectedPushExits ==
    [][ \A w \in Workers :
          /\ (pc[w] = "sleep_push" /\ pc'[w] # pc[w] /\ PushSleeperRejected) =>
                /\ pc'[w] = "crs_load"
                /\ UNCHANGED << lifecycle, pushed, sleep_stack, cv_signal >>
          /\ (terminated /\ pc[w] \in { "crs_load", "crs_pool" }
                         /\ pc'[w] # pc[w]) =>
                /\ pc'[w] \in { "crs_pool", "set_finalize" }
                /\ pc[w] = "crs_pool" => pc'[w] = "set_finalize"
                /\ UNCHANGED << polls, cur, inbound, deque >> ]_vars

\* a worker whose push was rejected (pushed bit set, not on the sleep
\* stack) has left its run loop at check_run_state
C19_Witness ==
    \E w \in Workers :
        /\ pc[w] = "set_finalize"
        /\ pushed[w] /\ ~ OnSleepStack(w)
        /\ lifecycle[w] = "Running"

\* the lifecycles that a worker provides for where it reads its own word
Expected(w) ==
    CASE pc[w] \in { "crs_pool", "crs_cas", "sleep_p1", "sleep_p2" } ->
           { "Running", "Notified", "Signaled" }
      [] pc[w] = "post_wake" -> { "Sleeping", "Notified", "Signaled" }
      [] OTHER -> Lifecycles

\* C20: the fatal branches for an unexpected lifecycle are never taken: in
\* check_run_state and in phases 1 and 2 of sleep() a worker reads its own
\* lifecycle as Running, Notified or Signaled only, and after a condvar
\* wakeup as Sleeping, Notified or Signaled only
C20_NoUnexpectedLifecycle ==
    \A w \in Workers : st[w].lc \in Expected(w)

\* a worker woken from its wait by a signaler reads Notified
C20_Witness ==
    \E w \in Workers :
        /\ pc[w] = "post_wake"
        /\ st[w].lc = "Notified"
        /\ keep_alive # None
        /\ terminated

\* worker w arrives at the label l in this step
Arrives(w, l) == pc'[w] = l /\ pc[w] # l

\* C21: a worker calls sleep() only if in the same iteration drain_inbound
\* returned consistent = true, its own deque answered Empty and every steal
\* of try_steal_task answered Empty: sleep() is reached from the spin only,
\* with consistent set; the spin from a scan that ends on Empty with
\* found_work false; found_work stays false over Empty answers only; and
\* the scan is begun only after the own deque was found empty
C21_SleepOnlyWhenNothingFound ==
    [][ \A w \in Workers :
          /\ Arrives(w, "sleep_load") => pc[w] = "spin" /\ consistent[w]
          /\ Arrives(w, "spin") =>
                pc[w] = "steal" /\ ~ found_work[w] /\ deque[idx[w]] = << >>
          /\ (pc[w] = "steal" /\ pc'[w] = "steal" /\ idx'[w] # idx[w]
                              /\ ~ found_work'[w]) =>
                ~ found_work[w] /\ deque[idx[w]] = << >>
          /\ Arrives(w, "steal") => pc[w] = "steal_begin" /\ ~ found_work'[w]
          /\ Arrives(w, "steal_begin") =>
                pc[w] = "try_run" /\ deque[w] = << >> ]_vars

\* a worker calls sleep() while a task lies in a peer's inbound queue
C21_Witness ==
    \E w \in Workers :
        /\ pc[w] = "sleep_load"
        /\ \E v \in Workers \ { w } : inbound[v] # << >>

\* worker w takes a step of drain_inbound, called from the run loop or from
\* the drop: it is the only consumer of its inbound queue
DrainMoves(w) ==
    /\ pc[w] \in { "drain", "drop_drain" }
    /\ pc'[w] # pc[w] \/ Len(inbound'[w]) < Len(inbound[w])

\* where the caller of drain_inbound goes on
AfterDrain(w) == IF pc[w] = "drain" THEN "try_run" ELSE "drop_pop"

\* C22: drain_inbound moves each task it polls from the owner's inbound
\* queue onto the owner's deque, stops at the first Empty or Inconsistent,
\* returns false iff it stopped on Inconsistent, and calls signal_work once
\* iff it moved a task, and not otherwise
C22_DrainInbound ==
    [][ \A w \in Workers :
          /\ DrainMoves(w) =>
               IF inbound[w] # << >>
               THEN /\ inbound'[w] = Tail(inbound[w])
                    /\ deque'[w] = Append(deque[w], Head(inbound[w]))
                    /\ found_work'[w]
                    /\ pc'[w] = pc[w]
               ELSE /\ UNCHANGED << inbound, deque >>
                    /\ pc[w] = "drain" => consistent'[w] = ~ MidPush(w)
                    /\ IF found_work[w]
                       THEN pc'[w] = "sig_pop" /\ ret'[w] = AfterDrain(w)
                       ELSE pc'[w] = AfterDrain(w) /\ ret'[w] = ret[w]
          /\ (Arrives(w, "drain") \/ Arrives(w, "drop_drain")) =>
               ~ found_work'[w] ]_vars

\* drain_inbound has moved a task onto the deque and calls signal_work
C22_Witness ==
    \E w \in Workers :
        /\ pc[w] = "sig_pop" /\ ret[w] = "try_run"
        /\ deque[w] # << >>
        /\ inbound[w] = << >>

\* the place of entry i in the scan q
PlaceIn(q, i) == CHOOSE k \in DOMAIN q : q[k] = i

\* the scan of worker w, as the loop of try_steal_task computes it
ScanOf(w) == ScanOrder(WorkersLen, start[w])

\* the scan visits every entry of an array of len workers exactly once
VisitsEachOnce(len, first_idx) ==
    /\ Len(ScanOrder(len, first_idx)) = len
    /\ \A i \in 0 .. (len - 1) :
          \E k \in DOMAIN ScanOrder(len, first_idx) :
              ScanOrder(len, first_idx)[k] = i

\* C23: for every worker count and every start index one call of
\* try_steal_task ends, tries each entry at most once, visits every entry
\* exactly once when nothing is stolen, and stops at the first steal that
\* gives a task, which it runs before it calls signal_work once
C23_StealScan ==
    /\ [](\A len \in 1 .. MaxScanLen : \A s \in 0 .. (len - 1) :
              VisitsEachOnce(len, s))
    /\ [][ \A w \in Workers :
             /\ Arrives(w, "steal") =>
                   start'[w] \in Pool /\ idx'[w] = start'[w]
             /\ StealMoves(w) =>
                   /\ \E k \in DOMAIN ScanOf(w) : ScanOf(w)[k] = idx[w]
                   /\ pc'[w] = "steal" =>
                         /\ PlaceIn(ScanOf(w), idx[w]) < Len(ScanOf(w))
                         /\ idx'[w] = ScanOf(w)[PlaceIn(ScanOf(w), idx[w]) + 1]
                         /\ start'[w] = start[w]
                         /\ UNCHANGED << deque, cur >>
                   /\ pc'[w] \in { "spin", "crs_load" } =>
                         /\ PlaceIn(ScanOf(w), idx[w]) = Len(ScanOf(w))
                         /\ UNCHANGED << deque, cur >>
                   /\ pc'[w] \notin { "steal", "spin", "crs_load" } =>
                         /\ pc'[w] = "run" /\ stolen'[w]
                         /\ deque[idx[w]] # << >>
                         /\ cur'[w] = Some(Head(deque[idx[w]]))
                         /\ deque'[idx[w]] = Tail(deque[idx[w]])
             /\ (pc[w] = "after_run" /\ pc'[w] # pc[w] /\ stolen[w]) =>
                   pc'[w] = "sig_pop" /\ ret'[w] = "crs_load" /\ ~ stolen'[w]
           ]_vars

\* in a pool of two a scan that began at the last entry has wrapped to
\* entry 0 with nothing stolen
C23_Witness ==
    \E w \in Workers :
        /\ WorkersLen = 2
        /\ pc[w] = "steal"
        /\ start[w] = 1 /\ idx[w] = 0

\* the number of links of worker w on sleep_stack
LinksOf(q, w) == Cardinality({ i \in DOMAIN q : q[i] = w })

\* C24: a worker's index is pushed onto sleep_stack only by the worker
\* itself, right after the phase 1 CAS that found it Running with the pushed
\* bit clear and set the bit, with the bit still set at the push; and no
\* index is linked on sleep_stack more than once
C24_SleeperStackIntegrity ==
    /\ [](\A w \in Workers : LinksOf(sleep_stack, w) <= 1)
    /\ [](\A w \in Workers :
             pc[w] = "sleep_push" => pushed[w] /\ ~ OnSleepStack(w))
    /\ [][ \A w \in Workers :
             /\ LinksOf(sleep_stack', w) > LinksOf(sleep_stack, w) =>
                   /\ pc[w] = "sleep_push" /\ pc'[w] = "sleep_lock"
                   /\ pushed[w] /\ pushed'[w]
                   /\ sleep_stack' = << w >> \o sleep_stack
             /\ Arrives(w, "sleep_push") =>
                   /\ pc[w] = "sleep_p1"
                   /\ st[w] = WorkerWord(w)
                   /\ lifecycle[w] = "Running" /\ lifecycle'[w] = "Running"
                   /\ ~ pushed[w] /\ pushed'[w]
                   /\ sleep_stack' = sleep_stack ]_vars

\* both workers are linked, the top one by the push it has just made after
\* a task was run to completion
C24_Witness ==
    /\ Len(sleep_stack) = 2
    /\ \E w \in Workers : pc[w] = "sleep_lock" /\ sleep_stack[1] = w
                          /\ completed > 0

\* the worker is in drain_inbound, try_run_task, try_steal_task or run_task
AtTask(w) ==
    \/ pc[w] \in { "drain", "try_run", "steal_begin", "steal", "run",
                   "complete_load", "complete_cas", "after_run",
                   "drop_drain", "drop_pop" }
    \/ ret[w] \in { "try_run", "after_run", "drop_pop" }

\* a lifecycle becomes Sleeping only by the phase 2 CAS of the worker itself,
\* from Running and under its park_mutex
C25_SleepingByOwnCas ==
    [][ \A w \in Workers :
          (lifecycle'[w] = "Sleeping" /\ lifecycle[w] # "Sleeping") =>
              /\ pc[w] = "sleep_p2" /\ HoldsParkMutex(w)
              /\ pc'[w] = "sleep_until" /\ HoldsParkMutex(w)'
              /\ lifecycle[w] = "Running" ]_vars

\* a lifecycle is Sleeping only while the worker is inside sleep()
C25_SleepingInsideSleep ==
    \A w \in Workers : lifecycle[w] = "Sleeping" => InSleep(w)

\* a worker that drains, runs or steals is Running, Notified or Signaled
C25_AwakeAtTask ==
    \A w \in Workers :
        AtTask(w) => lifecycle[w] \in { "Running", "Notified", "Signaled" }

\* sleep() returns true with the lifecycle Running
C25_TrueLeavesRunning ==
    [][ \A w \in Workers :
          (InSleep(w) /\ Arrives(w, "crs_load")) =>
              lifecycle'[w] = "Running" ]_vars

\* C25: a worker's lifecycle becomes Sleeping only by the worker's own CAS
\* made while it holds its park_mutex, it is Sleeping only while the worker
\* is inside sleep(), a worker that drains, runs or steals a task is
\* Running, Notified or Signaled, and sleep() returns true only with the
\* lifecycle left Running
C25_SleepingOnlyInsideSleep ==
    /\ C25_SleepingByOwnCas
    /\ [] C25_SleepingInsideSleep
    /\ [] C25_AwakeAtTask
    /\ C25_TrueLeavesRunning

====
